---- MODULE Spec2Model ----
(***************************************************************************)
(* Model of the school back end: the dashboard overview                    *)
(* (DashboardService.overview), ClassesService.findOne, addTime and        *)
(* updateTime, TeachersService.listTeacherClasses and create, over a       *)
(* snapshot of the store.                                                  *)
(*                                                                         *)
(* Instants are UTC minutes since 1970-01-01T00:00Z (seconds and           *)
(* milliseconds are zero in every instant the handlers build).  Strings    *)
(* the handlers format and compare are sequences of character codes.       *)
(* An optional (nullable) column is the empty set when absent and a        *)
(* singleton when present.                                                 *)
(*                                                                         *)
(* Of the overview report the model holds the counts of students,         *)
(* teachers and classes, payments.paymentStatusDistribution,               *)
(* payments.currentMonth, payments.overdue, payments.monthlyRevenue,       *)
(* academics.studentsByLevel, academics.topClasses and                     *)
(* schedule.upcomingSessions; the count of subjects, the recent invoices   *)
(* and payments and the teacher names are left out.                        *)
(***************************************************************************)
EXTENDS Integers, Sequences, FiniteSets, TLC

\* now: the clock.  classes .. classTimes: the tables of the store.
\* upcomingSessions: overview's local array of that name, as its last run left
\* it after the sort.  overviewResp, findOneResp, teacherClassesResp: what the
\* last call of each handler returned.  sessionLog: for every session any run
\* of overview emitted, the slot and date it came from and its identifier.
\* students: the student table.  failedReads: the reads of the store that
\* failed during the last run of overview.  users: the accounts
\* TeachersService.create stored, createInput: the argument of its last call,
\* createResp: what that call returned.
\* timeResp: what the last call of addTime or updateTime returned.  calls: the
\* updateTime calls in flight, each with its position and its local values.
VARIABLES now, classes, teachers, invoices, invoiceItems, classTimes,
          upcomingSessions, overviewResp, findOneResp, teacherClassesResp,
          sessionLog, students, failedReads, users, createInput, createResp,
          timeResp, calls

vars == <<now, classes, teachers, invoices, invoiceItems, classTimes,
          upcomingSessions, overviewResp, findOneResp, teacherClassesResp,
          sessionLog, students, failedReads, users, createInput, createResp,
          timeResp, calls>>

\* What the handlers of the dashboard and of the class reports never touch.
accountVars == <<users, createInput, createResp>>

timeVars == <<timeResp, calls>>

----------------------------------------------------------------------------
(* Optional values: `x ?? d`.                                              *)

None == {}

Some(v) == {v}

Coalesce(x, d) == IF x = {} THEN d ELSE CHOOSE v \in x : TRUE

----------------------------------------------------------------------------
(* The Date built-ins the handlers call, after ECMAScript's definitions.   *)

\* Calendar years the model's instants lie in.
Years == 2022..2027

Day(t) == t \div (24 * 60)

TimeWithinDay(t) == t % (24 * 60)

DayFromYear(y) ==
    365 * (y - 1970) + ((y - 1969) \div 4) - ((y - 1901) \div 100)
        + ((y - 1601) \div 400)

InLeapYear(y) == (y % 4 = 0) /\ ((y % 100 # 0) \/ (y % 400 = 0))

\* Day number within the year of the first day of month m (0-based; 12 is
\* the first day of the next year).
MonthStart(y, m) ==
    <<0, 31, 59, 90, 120, 151, 181, 212, 243, 273, 304, 334, 365>>[m + 1]
        + (IF InLeapYear(y) /\ m >= 2 THEN 1 ELSE 0)

\* Date.UTC(year, month, date): month and date outside their ranges carry.
DateUTC(y, m, d) ==
    LET ym == y + (m \div 12)
        mn == m % 12
    IN  (DayFromYear(ym) + MonthStart(ym, mn) + d - 1) * (24 * 60)

\* YearFromTime: the year y with DayFromYear(y) <= d < DayFromYear(y + 1).
YearOfDay(d) ==
    CHOOSE y \in Years : DayFromYear(y) <= d /\ d < DayFromYear(y + 1)

\* MonthFromTime: the month whose days hold day d.
MonthOfDay(d) ==
    CHOOSE m \in 0..11 :
        /\ MonthStart(YearOfDay(d), m) <= d - DayFromYear(YearOfDay(d))
        /\ d - DayFromYear(YearOfDay(d)) < MonthStart(YearOfDay(d), m + 1)

\* The calendar date of every day of the years Years.
Civil ==
    [d \in DayFromYear(2022)..(DayFromYear(2028) - 1) |->
        [year  |-> YearOfDay(d),
         month |-> MonthOfDay(d),
         date  |-> d - DayFromYear(YearOfDay(d))
                     - MonthStart(YearOfDay(d), MonthOfDay(d)) + 1]]

getUTCFullYear(t) == Civil[Day(t)].year

getUTCMonth(t) == Civil[Day(t)].month

getUTCDate(t) == Civil[Day(t)].date

\* 0 = Sunday; 1970-01-01 was a Thursday.
getUTCDay(t) == (Day(t) + 4) % 7

getUTCHours(t) == TimeWithinDay(t) \div 60

getUTCMinutes(t) == TimeWithinDay(t) % 60

\* d.setUTCMinutes(min, 0, 0): the minute field is replaced, the hour kept,
\* and a minute count of 60 or more carries into the hours and days.
setUTCMinutes(t, min) == Day(t) * (24 * 60) + getUTCHours(t) * 60 + min

----------------------------------------------------------------------------
(* Strings as sequences of character codes.                                *)


RECURSIVE NumToString(_)
\* String(n) for an integer n >= 0.
NumToString(n) ==
    IF n < 10 THEN <<48 + n>>
    ELSE NumToString(n \div 10) \o <<48 + (n % 10)>>

RECURSIVE padStart(_, _, _)
\* s.padStart(len, ch)
padStart(s, len, ch) ==
    IF Len(s) >= len THEN s ELSE padStart(<<ch>> \o s, len, ch)

\* d.toISOString() for a year in 0..9999: YYYY-MM-DDTHH:mm:ss.sssZ
toISOString(t) ==
    padStart(NumToString(getUTCFullYear(t)), 4, 48) \o <<45>>
        \o padStart(NumToString(getUTCMonth(t) + 1), 2, 48) \o <<45>>
        \o padStart(NumToString(getUTCDate(t)), 2, 48) \o <<84>>
        \o padStart(NumToString(getUTCHours(t)), 2, 48) \o <<58>>
        \o padStart(NumToString(getUTCMinutes(t)), 2, 48) \o <<58>>
        \o <<48, 48, 46, 48, 48, 48, 90>>

RECURSIVE splitFirst(_, _)
\* s.split(sep)[0]: the part of s before the first sep (all of s if none).
splitFirst(s, sep) ==
    IF s = <<>> \/ Head(s) = sep THEN <<>>
    ELSE <<Head(s)>> \o splitFirst(Tail(s), sep)

RECURSIVE localeCompare(_, _)
\* a.localeCompare(b) on strings of digits and punctuation, where collation
\* order is the order of the codes: negative, zero or positive.
localeCompare(a, b) ==
    IF a = <<>> /\ b = <<>> THEN 0
    ELSE IF a = <<>> THEN -1
    ELSE IF b = <<>> THEN 1
    ELSE IF Head(a) # Head(b) THEN Head(a) - Head(b)
    ELSE localeCompare(Tail(a), Tail(b))

----------------------------------------------------------------------------
(* The store.  classes: a sequence of class rows in snapshot order, each   *)
(* [id, name, teacherId, pricingMode, monthlyPriceCents,                   *)
(* fixedMonthlyPriceCents, students].  invoices: rows [id, status].        *)
(* invoiceItems: rows [invoiceId, billedMonth, lineTotalCents, paidCents]. *)
(* classTimes: rows [id, classId, dayOfWeek, startMinutes, endMinutes].    *)

NoResp == [status |-> "none"]

NotFound == [status |-> "NotFoundException"]

\* Math.max(a, b)
Max(a, b) == IF a >= b THEN a ELSE b

\* Math.min(a, b), as Array.prototype.slice clamps its end
Min(a, b) == IF a <= b THEN a ELSE b

\* x || 0 on a number
OrZero(x) == IF x = 0 THEN 0 ELSE x

\* arr.slice(0, n)
slice(s, n) == SubSeq(s, 1, Min(n, Len(s)))

----------------------------------------------------------------------------
(* DashboardService: month keys and the current-month range.               *)

\* monthKey without the padStart: "2025-1" for January.
monthKey_NoPad(d) ==
    NumToString(getUTCFullYear(d)) \o <<45>> \o NumToString(getUTCMonth(d) + 1)

monthKey(d) ==
    NumToString(getUTCFullYear(d)) \o <<45>>
        \o padStart(NumToString(getUTCMonth(d) + 1), 2, 48)

getMonthRange(monthDate) ==
    [start |-> DateUTC(getUTCFullYear(monthDate), getUTCMonth(monthDate), 1),
     end   |-> DateUTC(getUTCFullYear(monthDate), getUTCMonth(monthDate) + 1, 1)]

RECURSIVE SumLineTotal(_)
\* items.reduce((s, i) => s + i.lineTotalCents, 0)
SumLineTotal(items) ==
    IF items = {} THEN 0
    ELSE LET i == CHOOSE i \in items : TRUE
         IN  i.lineTotalCents + SumLineTotal(items \ {i})

RECURSIVE SumPaid(_)
\* items.reduce((s, i) => s + (i.paidCents ?? 0), 0)
SumPaid(items) ==
    IF items = {} THEN 0
    ELSE LET i == CHOOSE i \in items : TRUE
         IN  Coalesce(i.paidCents, 0) + SumPaid(items \ {i})

\* include: { items: true }
ItemsOf(inv) == {i \in invoiceItems : i.invoiceId = inv.id}

\* prisma.invoice.findMany({ where: { items: { some: { billedMonth:
\*                                   { gte: monthStart, lt: monthEnd } } } } })
MonthInvoices(n) ==
    LET r == getMonthRange(n)
    IN  {inv \in invoices :
            \E i \in ItemsOf(inv) :
                i.billedMonth >= r.start /\ i.billedMonth < r.end}

RECURSIVE SumInvoiced(_)
\* monthInvoices.forEach(inv => currentMonthInvoicedCents += sum of its items)
SumInvoiced(invs) ==
    IF invs = {} THEN 0
    ELSE LET inv == CHOOSE inv \in invs : TRUE
         IN  SumLineTotal(ItemsOf(inv)) + SumInvoiced(invs \ {inv})

RECURSIVE SumInvoicesPaid(_)
\* monthInvoices.forEach(inv => currentMonthPaidCents += sum of its items)
SumInvoicesPaid(invs) ==
    IF invs = {} THEN 0
    ELSE LET inv == CHOOSE inv \in invs : TRUE
         IN  SumPaid(ItemsOf(inv)) + SumInvoicesPaid(invs \ {inv})

\* A quotient of two integers, kept exact as numerator over denominator.
Ratio(num, den) == [num |-> num, den |-> den]

ZeroRate == Ratio(0, 1)

\* PaymentRate without the guard on invoicedCents.
PaymentRate_Unguarded(invoicedCents, paidCents) ==
    Ratio(paidCents, invoicedCents)

PaymentRate(invoicedCents, paidCents) ==
    IF invoicedCents > 0 THEN Ratio(paidCents, invoicedCents) ELSE ZeroRate

CurrentMonth(n) ==
    LET invoicedCents == SumInvoiced(MonthInvoices(n))
        paidCents     == SumInvoicesPaid(MonthInvoices(n))
    IN  [invoicedCents  |-> invoicedCents,
         paidCents      |-> paidCents,
         remainingCents |-> invoicedCents - paidCents,
         paymentRate    |-> PaymentRate(invoicedCents, paidCents)]

\* prisma.invoice.findMany({ where: { status: 'OVERDUE' } })
OverdueInvoices == {inv \in invoices : inv.status = "OVERDUE"}

\* OverdueContribution without Math.max(0, ...).
OverdueContribution_Unclamped(inv) ==
    SumLineTotal(ItemsOf(inv)) - SumPaid(ItemsOf(inv))

OverdueContribution(inv) ==
    Max(0, SumLineTotal(ItemsOf(inv)) - SumPaid(ItemsOf(inv)))

RECURSIVE SumOverdue(_)
\* overdueInvoices.forEach(inv => overdueAmountCents += Math.max(0, ...))
SumOverdue(invs) ==
    IF invs = {} THEN 0
    ELSE LET inv == CHOOSE inv \in invs : TRUE
         IN  OverdueContribution(inv) + SumOverdue(invs \ {inv})

Overdue ==
    [invoices    |-> Cardinality(OverdueInvoices),
     amountCents |-> SumOverdue(OverdueInvoices)]

\* prisma.invoiceItem.findMany({ where: { billedMonth:
\*                               { gte: sixMonthsAgo, lte: monthEnd } } })
TrendItems(n) ==
    LET sixMonthsAgo == DateUTC(getUTCFullYear(n), getUTCMonth(n) - 5, 1)
        monthEnd     == getMonthRange(n).end
    IN  {i \in invoiceItems :
            i.billedMonth >= sixMonthsAgo /\ i.billedMonth <= monthEnd}

\* MonthMap with `=` for `+=`: an entry holds the amounts of one item only.
MonthMap_LastItemOnly(n) ==
    LET keys == {monthKey(i.billedMonth) : i \in TrendItems(n)}
    IN  [k \in keys |->
            LET it == CHOOSE i \in TrendItems(n) : monthKey(i.billedMonth) = k
            IN  [invoicedCents |-> it.lineTotalCents,
                 paidCents     |-> Coalesce(it.paidCents, 0)]]

\* The map the forEach over the fetched items leaves: one entry per month
\* key that occurs, holding the sums of the items with that key.
MonthMap(n) ==
    LET keys == {monthKey(i.billedMonth) : i \in TrendItems(n)}
    IN  [k \in keys |->
            LET its == {i \in TrendItems(n) : monthKey(i.billedMonth) = k}
            IN  [invoicedCents |-> SumLineTotal(its),
                 paidCents     |-> SumPaid(its)]]

\* for (let i = 5; i >= 0; i--) monthlyRevenue.push(...)
MonthlyRevenue(n) ==
    LET monthMap == MonthMap(n)
    IN  [j \in 1..6 |->
            LET i  == 6 - j
                d  == DateUTC(getUTCFullYear(n), getUTCMonth(n) - i, 1)
                mk == monthKey(d)
            IN  [month         |-> mk,
                 invoicedCents |-> IF mk \in DOMAIN monthMap
                                   THEN OrZero(monthMap[mk].invoicedCents)
                                   ELSE 0,
                 paidCents     |-> IF mk \in DOMAIN monthMap
                                   THEN OrZero(monthMap[mk].paidCents)
                                   ELSE 0]]

----------------------------------------------------------------------------
(* Monthly revenue of a class, as each of the three handlers computes it.  *)

\* DashboardRevenue as it was before FIXED_TOTAL pricing was considered.
DashboardRevenue_PerStudentOnly(c) ==
    Coalesce(c.monthlyPriceCents, 0) * OrZero(Cardinality(c.students))

\* DashboardService.overview: estimatedRevenueCents
DashboardRevenue(c) ==
    LET studentCount == OrZero(Cardinality(c.students))
    IN  IF c.pricingMode = "FIXED_TOTAL"
        THEN Coalesce(c.fixedMonthlyPriceCents, 0)
        ELSE Coalesce(c.monthlyPriceCents, 0) * studentCount

\* ClassesService.findOne: totalMonthlyIncomeCents
FindOneIncome(klass) ==
    IF klass.pricingMode = "FIXED_TOTAL"
    THEN Coalesce(klass.fixedMonthlyPriceCents, 0)
    ELSE Coalesce(klass.monthlyPriceCents, 0) * Cardinality(klass.students)

\* TeachersService.listTeacherClasses: baseRevenue
TeacherBaseRevenue(c) ==
    LET studentCount == Cardinality(c.students)
    IN  IF c.pricingMode = "FIXED_TOTAL"
        THEN Coalesce(c.fixedMonthlyPriceCents, 0)
        ELSE Coalesce(c.monthlyPriceCents, 0) * studentCount

\* TeachersService.listTeacherClasses: effectivePricePerStudent
EffectivePricePerStudent(c) ==
    IF c.pricingMode = "FIXED_TOTAL"
    THEN Coalesce(c.fixedMonthlyPriceCents, 0)
    ELSE Coalesce(c.monthlyPriceCents, 0)

----------------------------------------------------------------------------
(* DashboardService.overview: top classes.                                 *)

TopClassEntry(c) ==
    [id                    |-> c.id,
     name                  |-> c.name,
     studentCount          |-> OrZero(Cardinality(c.students)),
     pricingMode           |-> c.pricingMode,
     estimatedRevenueCents |-> DashboardRevenue(c)]

RECURSIVE MapTopClass(_)
MapTopClass(cs) ==
    IF cs = <<>> THEN <<>>
    ELSE <<TopClassEntry(Head(cs))>> \o MapTopClass(Tail(cs))

RECURSIVE InsertByCount_TiesFirst(_, _)
\* A sort that is not stable: x goes before the entries that tie with it.
InsertByCount_TiesFirst(s, x) ==
    IF s = <<>> THEN <<x>>
    ELSE IF x.studentCount - Head(s).studentCount < 0
         THEN <<Head(s)>> \o InsertByCount_TiesFirst(Tail(s), x)
         ELSE <<x>> \o s

RECURSIVE InsertByCount(_, _)
\* x goes after every entry the comparator b.studentCount - a.studentCount
\* does not order after it: Array.prototype.sort is stable.
InsertByCount(s, x) ==
    IF s = <<>> THEN <<x>>
    ELSE IF x.studentCount - Head(s).studentCount <= 0
         THEN <<Head(s)>> \o InsertByCount(Tail(s), x)
         ELSE <<x>> \o s

RECURSIVE SortByCount(_)
SortByCount(s) ==
    IF s = <<>> THEN <<>>
    ELSE InsertByCount(SortByCount(SubSeq(s, 1, Len(s) - 1)), s[Len(s)])

TopClasses == slice(SortByCount(MapTopClass(classes)), 5)

----------------------------------------------------------------------------
(* DashboardService.overview: counts, payment status distribution and the  *)
(* students-by-level histogram.  A Record<string, number> is a function    *)
(* whose domain is the keys that were assigned.                            *)

EmptyRecord == [k \in {} |-> 0]

Counts ==
    [totalStudents |-> Cardinality(students),
     totalTeachers |-> Cardinality(teachers),
     totalClasses  |-> Len(classes)]

\* prisma.student.groupBy({ by: ['paymentStatus'], _count: { paymentStatus:
\* true } }): one group per value of the column, null being a value, with the
\* number of rows of the group whose column is not null.
PaymentStatusGroups ==
    {[paymentStatus |-> ps,
      count |-> IF ps = None THEN 0
                ELSE Cardinality({s \in students : s.paymentStatus = ps})] :
        ps \in {s.paymentStatus : s \in students}}

\* The loop over the groups: key = g.paymentStatus ?? 'unknown'.
PaymentStatusDistribution(groups) ==
    LET Key(g) == Coalesce(g.paymentStatus, "unknown")
    IN  [k \in {Key(g) : g \in groups} |->
            (CHOOSE g \in groups : Key(g) = k).count]

\* s.classes of student.findMany({ include: { classes: ... } })
StudentClasses(s) ==
    {classes[k] : k \in {j \in 1..Len(classes) : s.id \in classes[j].students}}

\* new Set(s.classes.map((c) => c.subject?.track?.level?.name)
\*                  .filter((n) => !!n))
LevelNames(s) ==
    {n \in UNION {c.level : c \in StudentClasses(s)} : n # ""}

\* record[key] = (record[key] || 0) + 1, for every key of keys
Increment(record, keys) ==
    [k \in DOMAIN record \cup keys |->
        (IF k \in DOMAIN record THEN record[k] ELSE 0)
            + (IF k \in keys THEN 1 ELSE 0)]

\* The body of studentsWithClasses.forEach
CountStudent(record, s) ==
    IF Cardinality(LevelNames(s)) = 0
    THEN Increment(record, {"Unassigned"})
    ELSE Increment(record, LevelNames(s))

RECURSIVE ForEachStudent(_, _)
ForEachStudent(ss, record) ==
    IF ss = {} THEN record
    ELSE LET s == CHOOSE x \in ss : TRUE
         IN  ForEachStudent(ss \ {s}, CountStudent(record, s))

StudentsByLevel == ForEachStudent(students, EmptyRecord)

----------------------------------------------------------------------------
(* DashboardService.overview: upcoming sessions.                           *)

horizon == 7

\* CandidateDate as new Date(now.getTime() + offset * 86400000): the time of
\* day of now is kept.
CandidateDate_NotTruncated(n, offset) == n + offset * (24 * 60)

\* new Date(Date.UTC(now.getUTCFullYear(), now.getUTCMonth(),
\*                   now.getUTCDate() + offset))
CandidateDate(n, offset) ==
    DateUTC(getUTCFullYear(n), getUTCMonth(n), getUTCDate(n) + offset)

\* SessionId as `${ct.id}-${date.getUTCDay()}`.
SessionId_ByWeekday(ct, date) == ct.id \o <<45>> \o NumToString(getUTCDay(date))

\* `${ct.id}-${date.toISOString().split('T')[0]}`
SessionId(ct, date) == ct.id \o <<45>> \o splitFirst(toISOString(date), 84)

\* clsInfo.class?.name || 'Unnamed'
ClassNameOf(classId) ==
    IF \E k \in 1..Len(classes) :
           classes[k].id = classId /\ classes[k].name # ""
    THEN classes[CHOOSE k \in 1..Len(classes) : classes[k].id = classId].name
    ELSE "Unnamed"

\* Session with the end moved up to the start when it lies before it.
Session_EndClamped(ct, date) ==
    [id        |-> SessionId(ct, date),
     classId   |-> ct.classId,
     className |-> ClassNameOf(ct.classId),
     start     |-> toISOString(setUTCMinutes(date, ct.startMinutes)),
     end       |-> toISOString(setUTCMinutes(date,
                                   Max(ct.startMinutes, ct.endMinutes))),
     dayOfWeek |-> ct.dayOfWeek]

Session(ct, date) ==
    [id        |-> SessionId(ct, date),
     classId   |-> ct.classId,
     className |-> ClassNameOf(ct.classId),
     start     |-> toISOString(setUTCMinutes(date, ct.startMinutes)),
     end       |-> toISOString(setUTCMinutes(date, ct.endMinutes)),
     dayOfWeek |-> ct.dayOfWeek]

RECURSIVE SlotSessions(_, _, _)
\* for (let offset = 0; offset < horizon; offset++) ...
SlotSessions(ct, n, offset) ==
    IF offset >= horizon THEN <<>>
    ELSE LET date == CandidateDate(n, offset)
         IN  (IF getUTCDay(date) = ct.dayOfWeek
              THEN <<Session(ct, date)>>
              ELSE <<>>)
             \o SlotSessions(ct, n, offset + 1)

RECURSIVE Expand(_, _)
\* for (const ct of classTimes) ...: cts is the fetched rows, in the order
\* the query returned them.
Expand(cts, n) ==
    IF cts = <<>> THEN <<>>
    ELSE SlotSessions(Head(cts), n, 0) \o Expand(Tail(cts), n)

RECURSIVE InsertByStart(_, _)
\* x goes after every session the comparator a.start.localeCompare(b.start)
\* does not order after it: Array.prototype.sort is stable.
InsertByStart(s, x) ==
    IF s = <<>> THEN <<x>>
    ELSE IF localeCompare(Head(s).start, x.start) <= 0
         THEN <<Head(s)>> \o InsertByStart(Tail(s), x)
         ELSE <<x>> \o s

RECURSIVE SortByStart(_)
\* upcomingSessions.sort((a, b) => a.start.localeCompare(b.start))
SortByStart(s) ==
    IF s = <<>> THEN <<>>
    ELSE InsertByStart(SortByStart(SubSeq(s, 1, Len(s) - 1)), s[Len(s)])

UpcomingSessions(cts, n) == SortByStart(Expand(cts, n))

\* Every order in which the query can return the rows of a table.
RowOrders(rows) ==
    {s \in [1..Cardinality(rows) -> rows] :
        \A i, j \in 1..Cardinality(rows) : i # j => s[i] # s[j]}

\* For each session the expansion emits at instant n: the slot and the
\* candidate date it came from, with the identifier it was given.
EmittedAt(n) ==
    {[slotId |-> ct.id, date |-> CandidateDate(n, o),
      id |-> SessionId(ct, CandidateDate(n, o)), at |-> n] :
        <<ct, o>> \in {p \in classTimes \X (0..(horizon - 1)) :
                          getUTCDay(CandidateDate(n, p[2])) = p[1].dayOfWeek}}

----------------------------------------------------------------------------
(* The handlers.                                                           *)

\* The reads of the store overview makes, in the order it makes them.
Reads ==
    {"student.count", "teacher.count", "class.count", "subject.count",
     "student.groupBy", "invoice.findMany.month", "invoice.findMany.overdue",
     "invoice.findMany.recent", "payment.findMany", "class.findMany",
     "student.findMany", "invoiceItem.findMany", "classTime.findMany"}

\* A rejected promise: the error of a read, passed on to the caller.
Rejected == [status |-> "rejected"]

\* What DashboardService.overview() returns at instant n, sorted being its
\* local array upcomingSessions after the sort and groups its local
\* paymentStatusGroups.
OverviewReport(n, sorted, groups) ==
    [status      |-> "ok",
     generatedAt |-> toISOString(n),
     counts      |-> Counts,
     payments    |-> [paymentStatusDistribution |->
                          PaymentStatusDistribution(groups),
                      currentMonth   |-> CurrentMonth(n),
                      overdue        |-> Overdue,
                      monthlyRevenue |-> MonthlyRevenue(n)],
     academics   |-> [studentsByLevel |-> StudentsByLevel,
                      topClasses      |-> TopClasses],
     schedule    |-> [upcomingSessions |-> slice(sorted, 15)]]

\* overview() when the reads of failed fail: only student.groupBy has a
\* .catch, which puts [] in the place of its result; the error of any other
\* read leaves the handler through its await.
OverviewFetch(failed) ==
    /\ failedReads' = failed
    /\ IF failed \ {"student.groupBy"} = {}
       THEN /\ \E cts \in RowOrders(classTimes) :
                   /\ upcomingSessions' = UpcomingSessions(cts, now)
                   /\ overviewResp' =
                          OverviewReport(now, upcomingSessions',
                              IF "student.groupBy" \in failed THEN {}
                              ELSE PaymentStatusGroups)
            /\ sessionLog' = sessionLog \cup EmittedAt(now)
       ELSE /\ overviewResp' = Rejected
            /\ UNCHANGED <<upcomingSessions, sessionLog>>
    /\ UNCHANGED <<now, classes, teachers, invoices, invoiceItems, classTimes,
                   findOneResp, teacherClassesResp, students, accountVars,
                   timeVars>>

\* overview() when every read succeeds.
Overview == OverviewFetch({})

\* ClassesService.findOne(id)
FindOne(id) ==
    /\ findOneResp' =
           IF \E k \in 1..Len(classes) : classes[k].id = id
           THEN LET klass == classes[CHOOSE k \in 1..Len(classes) :
                                         classes[k].id = id]
                IN  [status |-> "ok", klass |-> klass,
                     totalMonthlyIncomeCents |-> FindOneIncome(klass)]
           ELSE NotFound
    /\ UNCHANGED <<now, classes, teachers, invoices, invoiceItems, classTimes,
                   upcomingSessions, overviewResp, teacherClassesResp,
                   sessionLog, students, failedReads, accountVars, timeVars>>

TeacherClassEntry(c) ==
    [id                            |-> c.id,
     name                          |-> c.name,
     studentCount                  |-> Cardinality(c.students),
     pricingMode                   |-> c.pricingMode,
     monthlyPriceCents             |-> c.monthlyPriceCents,
     fixedMonthlyPriceCents        |-> c.fixedMonthlyPriceCents,
     totalMonthlyRevenueCents      |-> TeacherBaseRevenue(c),
     effectivePricePerStudentCents |-> EffectivePricePerStudent(c)]

RECURSIVE MapTeacherClass(_)
MapTeacherClass(cs) ==
    IF cs = <<>> THEN <<>>
    ELSE <<TeacherClassEntry(Head(cs))>> \o MapTeacherClass(Tail(cs))

\* prisma.class.findMany({ where: { teacherId }, orderBy: { name: 'asc' } }):
\* the store keeps its class rows in ascending order of name.
TeacherRawClasses(teacherId) ==
    LET OfTeacher(c) == c.teacherId = teacherId
    IN  SelectSeq(classes, OfTeacher)

\* TeachersService.listTeacherClasses(teacherId)
ListTeacherClasses(teacherId) ==
    /\ teacherClassesResp' =
           IF teacherId \in teachers
           THEN [status  |-> "ok",
                 classes |-> MapTeacherClass(TeacherRawClasses(teacherId))]
           ELSE NotFound
    /\ UNCHANGED <<now, classes, teachers, invoices, invoiceItems, classTimes,
                   upcomingSessions, overviewResp, findOneResp, sessionLog,
                   students, failedReads, accountVars, timeVars>>

\* The clock moves on to a later instant.
Tick(later) ==
    /\ later > now
    /\ now' = later
    /\ UNCHANGED <<classes, teachers, invoices, invoiceItems, classTimes,
                   upcomingSessions, overviewResp, findOneResp,
                   teacherClassesResp, sessionLog, students, failedReads,
                   accountVars, timeVars>>

----------------------------------------------------------------------------
(* TeachersService.create.  Of the account it stores the model holds the   *)
(* email, the password and the role; the names and the optional fields of  *)
(* the teacher row are left out.                                           *)

\* An optional string is truthy unless it is undefined or the empty string.
Truthy(x) == x # None /\ x # Some(<<>>)

IsWhiteSpace(ch) == ch \in {9, 10, 13, 32}

RECURSIVE trimStart(_)
trimStart(str) ==
    IF str # <<>> /\ IsWhiteSpace(Head(str)) THEN trimStart(Tail(str))
    ELSE str

RECURSIVE trimEnd(_)
trimEnd(str) ==
    IF str # <<>> /\ IsWhiteSpace(str[Len(str)])
    THEN trimEnd(SubSeq(str, 1, Len(str) - 1))
    ELSE str

\* String.prototype.trim
trim(str) == trimEnd(trimStart(str))

\* bcrypt.hash(plain, saltRounds): a hash that verifies plain and nothing else.
Hash(plain) == [bcrypt |-> plain]

\* const userInput = hasNestedUser ? input.user : input
UserInput(input) ==
    IF input.user # None THEN CHOOSE u \in input.user : TRUE ELSE input

\* Whether the password of the input is the one to store.
PasswordUsable(userInput) ==
    /\ Truthy(userInput.password)
    /\ Len(trim(CHOOSE p \in userInput.password : TRUE)) > 0

\* const plainPassword = ..., temp being what randomBytes(16) gives.
PlainPassword(userInput, temp) ==
    IF PasswordUsable(userInput)
    THEN CHOOSE p \in userInput.password : TRUE
    ELSE temp

\* __tempPassword: userInput?.password ? undefined : plainPassword
TempPasswordReturned(userInput, plainPassword) ==
    IF Truthy(userInput.password) THEN None ELSE Some(plainPassword)

BadRequest == [status |-> "BadRequestException"]

\* TeachersService.create(input)
Create(input, temp) ==
    LET userInput     == UserInput(input)
        plainPassword == PlainPassword(userInput, temp)
        created       == [email    |-> CHOOSE e \in userInput.email : TRUE,
                          password |-> Hash(plainPassword),
                          role     |-> "teacher"]
    IN  /\ createInput' = Some(input)
        /\ IF ~Truthy(userInput.email)
           THEN /\ createResp' = BadRequest
                /\ UNCHANGED users
           ELSE /\ users' = Append(users, created)
                /\ createResp' =
                       [status |-> "ok", user |-> created,
                        tempPassword |->
                            TempPasswordReturned(userInput, plainPassword)]
        /\ UNCHANGED <<now, classes, teachers, invoices, invoiceItems,
                       classTimes, upcomingSessions, overviewResp, findOneResp,
                       teacherClassesResp, sessionLog, students, failedReads,
                       timeVars>>

----------------------------------------------------------------------------
(* ClassesService.addTime and updateTime.  A dto field that is not given   *)
(* is None.                                                                *)

NotFoundWith(message) == [status |-> "NotFoundException", message |-> message]

\* ensureClass(classId) finds the class.
ClassFound(classId) == \E k \in 1..Len(classes) : classes[k].id = classId

\* prisma.classTime.findUnique({ where: { id: timeId } }): the row or null.
FindTime(timeId) == {ct \in classTimes : ct.id = timeId}

\* A merge that takes the fields the dto lacks from nowhere: the start of the
\* day and its end.
MergedTime_DtoOnly(dto, time) ==
    [dayOfWeek    |-> Coalesce(dto.dayOfWeek, 0),
     startMinutes |-> Coalesce(dto.startMinutes, 0),
     endMinutes   |-> Coalesce(dto.endMinutes, 24 * 60)]

\* const next = { dayOfWeek: dto.dayOfWeek ?? time.dayOfWeek, ... }
MergedTime(dto, time) ==
    [dayOfWeek    |-> Coalesce(dto.dayOfWeek, time.dayOfWeek),
     startMinutes |-> Coalesce(dto.startMinutes, time.startMinutes),
     endMinutes   |-> Coalesce(dto.endMinutes, time.endMinutes)]

\* prisma.classTime.update({ where: { id: timeId }, data: dto }): the row with
\* the fields the dto gives written over its own.
UpdatedRow(ct, dto) ==
    [ct EXCEPT !.dayOfWeek    = Coalesce(dto.dayOfWeek, @),
               !.startMinutes = Coalesce(dto.startMinutes, @),
               !.endMinutes   = Coalesce(dto.endMinutes, @)]

UpdatedTimes(timeId, dto) ==
    {IF ct.id = timeId THEN UpdatedRow(ct, dto) ELSE ct : ct \in classTimes}

\* What updateTime answers once it has read the row: the error it throws, or
\* NoResp when it goes on to the write.
UpdateTimeCheck(classId, timeId, dto) ==
    LET found == FindTime(timeId)
    IN  IF found = {} \/ (\E time \in found : time.classId # classId)
        THEN NotFoundWith("Time not found")
        ELSE LET next == MergedTime(dto, CHOOSE time \in found : TRUE)
             IN  IF next.endMinutes <= next.startMinutes
                 THEN NotFoundWith("endMinutes must be greater than startMinutes")
                 ELSE NoResp

\* ClassesService.addTime(classId, dto), id being the key the store gives the
\* new row.
AddTime(classId, dto, id) ==
    /\ IF ~ClassFound(classId)
       THEN /\ timeResp' = NotFoundWith("Class not found")
            /\ UNCHANGED classTimes
       ELSE IF dto.endMinutes <= dto.startMinutes
       THEN /\ timeResp' =
                   NotFoundWith("endMinutes must be greater than startMinutes")
            /\ UNCHANGED classTimes
       ELSE LET row == [id |-> id, classId |-> classId,
                        dayOfWeek |-> dto.dayOfWeek,
                        startMinutes |-> dto.startMinutes,
                        endMinutes |-> dto.endMinutes]
            IN  /\ classTimes' = classTimes \cup {row}
                /\ timeResp' = [status |-> "ok", time |-> row]
    /\ UNCHANGED <<now, classes, teachers, invoices, invoiceItems,
                   upcomingSessions, overviewResp, findOneResp,
                   teacherClassesResp, sessionLog, students, failedReads,
                   accountVars, calls>>

\* ClassesService.updateTime(classId, timeId, dto), no other call running
\* between its reads and its write.
UpdateTime(classId, timeId, dto) ==
    /\ IF ~ClassFound(classId)
       THEN /\ timeResp' = NotFoundWith("Class not found")
            /\ UNCHANGED classTimes
       ELSE IF UpdateTimeCheck(classId, timeId, dto) # NoResp
       THEN /\ timeResp' = UpdateTimeCheck(classId, timeId, dto)
            /\ UNCHANGED classTimes
       ELSE /\ classTimes' = UpdatedTimes(timeId, dto)
            /\ timeResp' =
                   [status |-> "ok",
                    time |-> UpdatedRow(CHOOSE ct \in FindTime(timeId) : TRUE,
                                        dto)]
    /\ UNCHANGED <<now, classes, teachers, invoices, invoiceItems,
                   upcomingSessions, overviewResp, findOneResp,
                   teacherClassesResp, sessionLog, students, failedReads,
                   accountVars, calls>>

(* updateTime as the steps between its awaits, for calls that overlap: a   *)
(* call is at "idle" before it starts, at "ensured" once ensureClass has   *)
(* answered, at "validated" once it has read the row and checked the       *)
(* merge, and at "done" once it has written or thrown.                     *)

IdleCall ==
    [pc |-> "idle", classId |-> "", timeId |-> <<>>,
     dto |-> [dayOfWeek |-> None, startMinutes |-> None, endMinutes |-> None],
     resp |-> NoResp]

\* await this.ensureClass(classId)
UpdateTimeBegin(p, classId, timeId, dto) ==
    /\ calls[p].pc = "idle"
    /\ calls' =
           [calls EXCEPT ![p] =
               IF ClassFound(classId)
               THEN [pc |-> "ensured", classId |-> classId, timeId |-> timeId,
                     dto |-> dto, resp |-> NoResp]
               ELSE [pc |-> "done", classId |-> classId, timeId |-> timeId,
                     dto |-> dto, resp |-> NotFoundWith("Class not found")]]
    /\ UNCHANGED <<now, classes, teachers, invoices, invoiceItems, classTimes,
                   upcomingSessions, overviewResp, findOneResp,
                   teacherClassesResp, sessionLog, students, failedReads,
                   accountVars, timeResp>>

\* const time = await this.prisma.classTime.findUnique(...), and the checks
\* that follow it up to the call of update.
UpdateTimeRead(p) ==
    /\ calls[p].pc = "ensured"
    /\ LET check == UpdateTimeCheck(calls[p].classId, calls[p].timeId,
                                    calls[p].dto)
       IN  calls' =
               [calls EXCEPT ![p] =
                   IF check = NoResp
                   THEN [@ EXCEPT !.pc = "validated"]
                   ELSE [@ EXCEPT !.pc = "done", !.resp = check]]
    /\ UNCHANGED <<now, classes, teachers, invoices, invoiceItems, classTimes,
                   upcomingSessions, overviewResp, findOneResp,
                   teacherClassesResp, sessionLog, students, failedReads,
                   accountVars, timeResp>>

\* return this.prisma.classTime.update({ where: { id: timeId }, data: dto })
UpdateTimeWrite(p) ==
    /\ calls[p].pc = "validated"
    /\ FindTime(calls[p].timeId) # {}
    /\ classTimes' = UpdatedTimes(calls[p].timeId, calls[p].dto)
    /\ calls' =
           [calls EXCEPT ![p] =
               [@ EXCEPT !.pc = "done",
                         !.resp =
                             [status |-> "ok",
                              time |-> UpdatedRow(
                                  CHOOSE ct \in FindTime(calls[p].timeId) : TRUE,
                                  calls[p].dto)]]]
    /\ UNCHANGED <<now, classes, teachers, invoices, invoiceItems,
                   upcomingSessions, overviewResp, findOneResp,
                   teacherClassesResp, sessionLog, students, failedReads,
                   accountVars, timeResp>>

----------------------------------------------------------------------------
(* Bounds of the model and the snapshots the handlers are run on.          *)

MaxStudents == 2

MaxItems == 3

MaxSlots == 2

RECURSIVE SubsetsUpTo(_, _)
\* The subsets of S with at most k elements.
SubsetsUpTo(S, k) ==
    IF k = 0 THEN {{}}
    ELSE LET P == SubsetsUpTo(S, k - 1)
         IN  P \cup {T \cup {x} : T \in P, x \in S}

ClassIds == <<"c1", "c2">>

ClassNames == <<"Algebra", "Biology">>

ClassTeachers == <<"t1", "t2">>

PricingModes == {"PER_STUDENT", "FIXED_TOTAL"}

ClassRows(k) ==
    {[id |-> ClassIds[k], name |-> ClassNames[k],
      teacherId |-> ClassTeachers[k], pricingMode |-> mode,
      monthlyPriceCents |-> mp, fixedMonthlyPriceCents |-> fp,
      level |-> None, students |-> 1..n] :
        mode \in PricingModes, mp \in {None, Some(5000)},
        fp \in {None, Some(20000)}, n \in 0..MaxStudents}

ClassSnapshots ==
    {<<c1>> : c1 \in ClassRows(1)}
        \cup {<<c1, c2>> : c1 \in ClassRows(1), c2 \in ClassRows(2)}

\* 2025-01-15T10:30Z: the six-month window reaches back into 2024.
\* 2024-03-31T23:59Z: the last minute of a month, in a leap year.
PaymentNows == {DateUTC(2025, 0, 15) + 630, DateUTC(2024, 2, 31) + 1439}

InvoiceRows ==
    {[id |-> "i1", status |-> "OVERDUE"], [id |-> "i2", status |-> "OVERDUE"],
     [id |-> "i3", status |-> "PAID"]}

\* billedMonth values around the windows of an overview at instant n: the
\* first instant of the current month, of the month before and of the month
\* after, and the last minute before the six-month window.
BilledMonths(n) ==
    {DateUTC(getUTCFullYear(n), getUTCMonth(n), 1),
     DateUTC(getUTCFullYear(n), getUTCMonth(n) - 1, 1),
     DateUTC(getUTCFullYear(n), getUTCMonth(n) + 1, 1),
     DateUTC(getUTCFullYear(n), getUTCMonth(n) - 5, 1) - 1}

\* <<lineTotalCents, paidCents>>
Amounts == {<<1000, None>>, <<500, Some(500)>>, <<0, Some(700)>>}

\* Item rows; no two rows of a snapshot agree in every column.
ItemRows(n) ==
    {[invoiceId |-> inv.id, billedMonth |-> bm, lineTotalCents |-> a[1],
      paidCents |-> a[2]] :
        inv \in InvoiceRows, bm \in BilledMonths(n), a \in Amounts}

\* 2024-12-28T10:30Z (a Saturday) and 2024-12-30T23:59Z (a Monday): both
\* horizons cross the year's end and they share five dates.
ScheduleNows == {DateUTC(2024, 11, 28) + 630, DateUTC(2024, 11, 30) + 1439}

\* "b", "a" and "a-2"
SlotIds == {<<98>>, <<97>>, <<97, 45, 50>>}

DaysOfWeek == {0, 3, 6}

\* <<startMinutes, endMinutes>>: a valid slot, and two degenerate ones (rows
\* that interleaved updateTime calls or direct writes leave in the table).
SlotTimes == {<<540, 600>>, <<1439, 0>>, <<0, 0>>}

SlotRows ==
    {[id |-> id, classId |-> "c1", dayOfWeek |-> dow, startMinutes |-> t[1],
      endMinutes |-> t[2]] :
        id \in SlotIds, dow \in DaysOfWeek, t \in SlotTimes}

SlotSnapshots ==
    {rows \in SubsetsUpTo(SlotRows, MaxSlots) :
        \A r1, r2 \in rows : r1.id = r2.id => r1 = r2}

\* The students the class rows refer to, none with a payment status.
NoStatusStudents ==
    {[id |-> i, paymentStatus |-> None] : i \in 1..MaxStudents}

InitResponses ==
    /\ upcomingSessions = <<>>
    /\ overviewResp = NoResp
    /\ findOneResp = NoResp
    /\ teacherClassesResp = NoResp
    /\ sessionLog = {}
    /\ failedReads = {}
    /\ users = <<>>
    /\ createInput = None
    /\ createResp = NoResp
    /\ timeResp = NoResp
    /\ calls = <<>>

----------------------------------------------------------------------------
(* Pricing: the three handlers on a snapshot of classes.                   *)

InitPricing ==
    /\ now = DateUTC(2025, 0, 15) + 630
    /\ classes \in ClassSnapshots
    /\ teachers = {"t1", "t2"}
    /\ invoices = {}
    /\ invoiceItems = {}
    /\ classTimes = {}
    /\ students = NoStatusStudents
    /\ InitResponses

NextPricing ==
    \/ Overview
    \/ \E id \in {"c1", "c2", "c9"} : FindOne(id)
    \/ \E t \in {"t1", "t2", "t9"} : ListTeacherClasses(t)

SpecPricing == InitPricing /\ [][NextPricing]_vars

(* Payments: overview on a snapshot of invoices and their items.           *)

InitPayments ==
    /\ now \in PaymentNows
    /\ classes = <<>>
    /\ teachers = {}
    /\ invoices = InvoiceRows
    /\ invoiceItems \in SubsetsUpTo(ItemRows(now), MaxItems)
    /\ classTimes = {}
    /\ students = NoStatusStudents
    /\ InitResponses

NextPayments == Overview

SpecPayments == InitPayments /\ [][NextPayments]_vars

(* Schedule: overview runs on a snapshot of class times as time passes.    *)

InitSchedule ==
    /\ now = DateUTC(2024, 11, 28) + 630
    /\ classes = <<[id |-> "c1", name |-> "Algebra", teacherId |-> "t1",
                    pricingMode |-> "PER_STUDENT",
                    monthlyPriceCents |-> Some(5000),
                    fixedMonthlyPriceCents |-> None, level |-> None,
                    students |-> {}]>>
    /\ teachers = {"t1"}
    /\ invoices = {}
    /\ invoiceItems = {}
    /\ classTimes \in SlotSnapshots
    /\ students = NoStatusStudents
    /\ InitResponses

NextSchedule ==
    \/ Overview
    \/ \E later \in ScheduleNows : Tick(later)

SpecSchedule == InitSchedule /\ [][NextSchedule]_vars

(* Academics: overview on a snapshot of students, their classes and the     *)
(* levels the classes lead to.                                             *)

LevelClassIds == <<"c1", "c2", "c3">>

\* Level.name is any text, unique among the levels.
LevelNameValues == {"Primary", "Secondary", "Unassigned"}

LevelClassRows(k) ==
    {[id |-> LevelClassIds[k], name |-> "Class", teacherId |-> "t1",
      pricingMode |-> "PER_STUDENT", monthlyPriceCents |-> Some(5000),
      fixedMonthlyPriceCents |-> None, level |-> lv, students |-> ss] :
        lv \in {None} \cup {Some(n) : n \in LevelNameValues},
        ss \in SUBSET (1..MaxStudents)}

LevelSnapshots ==
    {<<>>}
        \cup {<<c1>> : c1 \in LevelClassRows(1)}
        \cup {<<c1, c2>> : c1 \in LevelClassRows(1), c2 \in LevelClassRows(2)}
        \cup {<<c1, c2, c3>> : c1 \in LevelClassRows(1),
                               c2 \in LevelClassRows(2),
                               c3 \in LevelClassRows(3)}

InitAcademics ==
    /\ now = DateUTC(2025, 0, 15) + 630
    /\ classes \in LevelSnapshots
    /\ teachers = {"t1"}
    /\ invoices = {}
    /\ invoiceItems = {}
    /\ classTimes = {}
    /\ students = NoStatusStudents
    /\ InitResponses

NextAcademics == Overview

SpecAcademics == InitAcademics /\ [][NextAcademics]_vars

(* Top classes: overview on snapshots of more classes than the list holds. *)

MaxTopClasses == 6

TopClassIds == <<"c1", "c2", "c3", "c4", "c5", "c6", "c7", "c8">>

TopClassRows(k) ==
    {[id |-> TopClassIds[k], name |-> "Class", teacherId |-> "t1",
      pricingMode |-> "PER_STUDENT", monthlyPriceCents |-> Some(5000),
      fixedMonthlyPriceCents |-> None, level |-> None, students |-> 1..n] :
        n \in 0..MaxStudents}

RECURSIVE TopClassSnapshots(_)
\* The snapshots of exactly k classes.
TopClassSnapshots(k) ==
    IF k = 0 THEN {<<>>}
    ELSE {Append(cs, c) : cs \in TopClassSnapshots(k - 1),
                          c \in TopClassRows(k)}

InitTopClasses ==
    /\ now = DateUTC(2025, 0, 15) + 630
    /\ classes \in UNION {TopClassSnapshots(k) : k \in 0..MaxTopClasses}
    /\ teachers = {"t1"}
    /\ invoices = {}
    /\ invoiceItems = {}
    /\ classTimes = {}
    /\ students = NoStatusStudents
    /\ InitResponses

NextTopClasses == Overview

SpecTopClasses == InitTopClasses /\ [][NextTopClasses]_vars

(* Failures: overview on a snapshot of students while reads of the store   *)
(* fail.                                                                   *)

MaxFailures == 2

PaymentStatuses == {None, Some("PAID"), Some("UNPAID")}

StudentSnapshots ==
    {{[id |-> i, paymentStatus |-> ps[i]] : i \in 1..MaxStudents} :
        ps \in [1..MaxStudents -> PaymentStatuses]}

InitFailures ==
    /\ now = DateUTC(2025, 0, 15) + 630
    /\ classes = <<>>
    /\ teachers = {"t1"}
    /\ invoices = {}
    /\ invoiceItems = {}
    /\ classTimes = {}
    /\ students \in StudentSnapshots
    /\ InitResponses

NextFailures == \E failed \in SubsetsUpTo(Reads, MaxFailures) : OverviewFetch(failed)

SpecFailures == InitFailures /\ [][NextFailures]_vars

(* Accounts: TeachersService.create on inputs of both shapes.              *)

MaxUsers == 2

\* undefined, "", "  ", "pw" and " pw "
PasswordInputs ==
    {None, Some(<<>>), Some(<<32, 32>>), Some(<<112, 119>>),
     Some(<<32, 112, 119, 32>>)}

\* undefined, "", "a@x" and "b@x"
EmailInputs == {None, Some(<<>>), Some(<<97, 64, 120>>), Some(<<98, 64, 120>>)}

\* What randomBytes(16).toString('base64url') may give: "T1" or "T2".
TempPasswords == {<<84, 49>>, <<84, 50>>}

\* The flat shape { email, password? } and the nested { user: { ... } }.
CreateInputs ==
    {[user |-> None, email |-> e, password |-> p] :
        e \in EmailInputs, p \in PasswordInputs}
        \cup {[user |-> Some([email |-> e, password |-> p]),
               email |-> None, password |-> None] :
                 e \in EmailInputs, p \in PasswordInputs}

InitAccounts ==
    /\ now = DateUTC(2025, 0, 15) + 630
    /\ classes = <<>>
    /\ teachers = {}
    /\ invoices = {}
    /\ invoiceItems = {}
    /\ classTimes = {}
    /\ students = {}
    /\ InitResponses

NextAccounts ==
    \E input \in CreateInputs, temp \in TempPasswords :
        Len(users) < MaxUsers /\ Create(input, temp)

SpecAccounts == InitAccounts /\ [][NextAccounts]_vars

(* Times: addTime and updateTime, one call at a time, on a store whose     *)
(* slots all end after they start.                                         *)

MaxTimes == 2

\* "t1" .. "t4"
TimeIdPool == <<<<116, 49>>, <<116, 50>>, <<116, 51>>, <<116, 52>>>>

TimeClassIds == {"c1", "c2", "c9"}

StartValues == {540, 660}

EndValues == {600, 720}

CreateTimeDtos ==
    [dayOfWeek : {1}, startMinutes : StartValues, endMinutes : EndValues]

UpdateTimeDtos ==
    [dayOfWeek    : {None, Some(3)},
     startMinutes : {None} \cup {Some(v) : v \in StartValues},
     endMinutes   : {None} \cup {Some(v) : v \in EndValues}]

TimeClasses ==
    <<[id |-> "c1", name |-> "Algebra", teacherId |-> "t1",
       pricingMode |-> "PER_STUDENT", monthlyPriceCents |-> Some(5000),
       fixedMonthlyPriceCents |-> None, level |-> None, students |-> {}],
      [id |-> "c2", name |-> "Biology", teacherId |-> "t1",
       pricingMode |-> "PER_STUDENT", monthlyPriceCents |-> Some(5000),
       fixedMonthlyPriceCents |-> None, level |-> None, students |-> {}]>>

\* The stores of at most one slot, the slot ending after it starts.
ValidTimeStores ==
    {{}} \cup {{[id |-> TimeIdPool[1], classId |-> "c1", dayOfWeek |-> 1,
                 startMinutes |-> t[1], endMinutes |-> t[2]]} :
                   t \in {u \in StartValues \X EndValues : u[2] > u[1]}}

InitTimes ==
    /\ now = DateUTC(2025, 0, 15) + 630
    /\ classes = TimeClasses
    /\ teachers = {"t1"}
    /\ invoices = {}
    /\ invoiceItems = {}
    /\ classTimes \in ValidTimeStores
    /\ students = {}
    /\ InitResponses

\* The key of a new row: one no row of the store has.
FreshTimeId ==
    TimeIdPool[CHOOSE k \in 1..Len(TimeIdPool) :
                   /\ FindTime(TimeIdPool[k]) = {}
                   /\ \A j \in 1..(k - 1) : FindTime(TimeIdPool[j]) # {}]

NextTimes ==
    \/ \E classId \in TimeClassIds, dto \in CreateTimeDtos :
           /\ Cardinality(classTimes) < MaxTimes
           /\ AddTime(classId, dto, FreshTimeId)
    \/ \E classId \in TimeClassIds, k \in 1..(MaxTimes + 1),
          dto \in UpdateTimeDtos :
           UpdateTime(classId, TimeIdPool[k], dto)

SpecTimes == InitTimes /\ [][NextTimes]_vars

(* Race: two updateTime calls on the same slot, their steps interleaved.   *)

Callers == {1, 2}

InitRace ==
    /\ now = DateUTC(2025, 0, 15) + 630
    /\ classes = TimeClasses
    /\ teachers = {"t1"}
    /\ invoices = {}
    /\ invoiceItems = {}
    /\ classTimes \in ValidTimeStores \ {{}}
    /\ students = {}
    /\ upcomingSessions = <<>>
    /\ overviewResp = NoResp
    /\ findOneResp = NoResp
    /\ teacherClassesResp = NoResp
    /\ sessionLog = {}
    /\ failedReads = {}
    /\ users = <<>>
    /\ createInput = None
    /\ createResp = NoResp
    /\ timeResp = NoResp
    /\ calls = [p \in Callers |-> IdleCall]

NextRace ==
    \E p \in Callers :
        \/ \E classId \in {"c1", "c9"}, dto \in UpdateTimeDtos :
               UpdateTimeBegin(p, classId, TimeIdPool[1], dto)
        \/ UpdateTimeRead(p)
        \/ UpdateTimeWrite(p)

SpecRace == InitRace /\ [][NextRace]_vars

Init ==
    \/ InitPricing
    \/ InitPayments
    \/ InitSchedule
    \/ InitAcademics
    \/ InitTopClasses
    \/ InitFailures
    \/ InitAccounts
    \/ InitTimes
    \/ InitRace

Next ==
    \/ NextPricing
    \/ NextSchedule
    \/ NextFailures
    \/ NextAccounts
    \/ NextTimes
    \/ NextRace

Spec == Init /\ [][Next]_vars

----------------------------------------------------------------------------
(* Properties.                                                             *)

ClassById(id) == classes[CHOOSE k \in 1..Len(classes) : classes[k].id = id]

\* The value of an optional amount, 0 when absent.
AmountOr0(x) == IF x = None THEN 0 ELSE CHOOSE v \in x : TRUE

\* Monthly revenue of a class by its pricing policy.
ReferenceRevenue(c) ==
    IF c.pricingMode = "FIXED_TOTAL"
    THEN AmountOr0(c.fixedMonthlyPriceCents)
    ELSE AmountOr0(c.monthlyPriceCents) * Cardinality(c.students)

AllResponded ==
    /\ overviewResp.status = "ok"
    /\ findOneResp.status = "ok"
    /\ teacherClassesResp.status = "ok"

\* C1: at each of the three sites the monthly revenue of a class is the
\* reference value (the fixed total, 0 if absent, whatever the enrollment,
\* under FIXED_TOTAL; the per-student price, 0 if absent, times the
\* enrollment under PER_STUDENT), and two sites that report the same class
\* report the same revenue.
C1_RevenueSitesAgree ==
    /\ overviewResp.status = "ok" =>
           LET top == overviewResp.academics.topClasses
           IN  /\ Len(top) = Len(classes)
               /\ \A k \in 1..Len(top) :
                      top[k].estimatedRevenueCents
                          = ReferenceRevenue(ClassById(top[k].id))
    /\ findOneResp.status = "ok" =>
           findOneResp.totalMonthlyIncomeCents
               = ReferenceRevenue(ClassById(findOneResp.klass.id))
    /\ teacherClassesResp.status = "ok" =>
           \A k \in 1..Len(teacherClassesResp.classes) :
               teacherClassesResp.classes[k].totalMonthlyRevenueCents
                   = ReferenceRevenue(ClassById(teacherClassesResp.classes[k].id))
    /\ AllResponded =>
           LET top == overviewResp.academics.topClasses
               tcs == teacherClassesResp.classes
           IN  /\ \A k \in 1..Len(top) :
                      top[k].id = findOneResp.klass.id =>
                          top[k].estimatedRevenueCents
                              = findOneResp.totalMonthlyIncomeCents
               /\ \A k \in 1..Len(top), j \in 1..Len(tcs) :
                      top[k].id = tcs[j].id =>
                          top[k].estimatedRevenueCents
                              = tcs[j].totalMonthlyRevenueCents
               /\ \A j \in 1..Len(tcs) :
                      tcs[j].id = findOneResp.klass.id =>
                          tcs[j].totalMonthlyRevenueCents
                              = findOneResp.totalMonthlyIncomeCents

\* All three sites have reported a FIXED_TOTAL class with two students and a
\* fixed total of 20000, and the overview also a PER_STUDENT class with two
\* students at 5000 each.
C1_Witness ==
    /\ AllResponded
    /\ findOneResp.klass.pricingMode = "FIXED_TOTAL"
    /\ Cardinality(findOneResp.klass.students) = 2
    /\ findOneResp.totalMonthlyIncomeCents = 20000
    /\ \E j \in 1..Len(teacherClassesResp.classes) :
           teacherClassesResp.classes[j].id = findOneResp.klass.id
    /\ \E k \in 1..Len(overviewResp.academics.topClasses) :
           LET e == overviewResp.academics.topClasses[k]
           IN  /\ e.pricingMode = "PER_STUDENT"
               /\ e.studentCount = 2
               /\ e.estimatedRevenueCents = 10000

\* Months counted from year 0: the month of instant t.
MonthIndex(t) == getUTCFullYear(t) * 12 + getUTCMonth(t)

ItemsOfMonth(items, idx) == {i \in items : MonthIndex(i.billedMonth) = idx}

\* C2: the current-month summary counts exactly the line items whose
\* billedMonth lies in the current month; an item of another month adds
\* nothing, whatever invoice it belongs to.
C2_CurrentMonthCountsOnlyItsItems ==
    overviewResp.status = "ok" =>
        LET its == ItemsOfMonth(invoiceItems, MonthIndex(now))
            cur == overviewResp.payments.currentMonth
        IN  /\ cur.invoicedCents = SumLineTotal(its)
            /\ cur.paidCents = SumPaid(its)

\* "YYYY-MM" of the month with index idx.
ExpectedMonthKey(idx) ==
    LET y == idx \div 12
        m == (idx % 12) + 1
    IN  <<48 + ((y \div 1000) % 10), 48 + ((y \div 100) % 10),
          48 + ((y \div 10) % 10), 48 + (y % 10), 45,
          48 + (m \div 10), 48 + (m % 10)>>

\* C3: the monthly trend has exactly 6 buckets, keyed by the 6 consecutive
\* months that end with the anchor month, oldest first; a month without
\* line items has invoicedCents = 0 and paidCents = 0.
C3_SixConsecutiveMonths ==
    overviewResp.status = "ok" =>
        LET trend == overviewResp.payments.monthlyRevenue
        IN  /\ DOMAIN trend = 1..6
            /\ \A j \in 1..6 :
                   LET idx == MonthIndex(now) - (6 - j)
                   IN  /\ trend[j].month = ExpectedMonthKey(idx)
                       /\ ItemsOfMonth(invoiceItems, idx) = {} =>
                              /\ trend[j].invoicedCents = 0
                              /\ trend[j].paidCents = 0

\* An overview anchored in January 2025: the trend starts at "2024-08", its
\* first month is empty and a later month is not.
C3_Witness ==
    /\ overviewResp.status = "ok"
    /\ getUTCMonth(now) = 0
    /\ overviewResp.payments.monthlyRevenue[1].month
           = <<50, 48, 50, 52, 45, 48, 56>>
    /\ overviewResp.payments.monthlyRevenue[1].invoicedCents = 0
    /\ \E j \in 2..6 : overviewResp.payments.monthlyRevenue[j].invoicedCents > 0

\* C4: each bucket holds the sums of lineTotalCents and of paidCents
\* (absent = 0) over exactly the fetched items billed in the bucket's month.
C4_BucketSums ==
    overviewResp.status = "ok" =>
        \A j \in 1..6 :
            LET idx == MonthIndex(now) - (6 - j)
                its == ItemsOfMonth(TrendItems(now), idx)
                b   == overviewResp.payments.monthlyRevenue[j]
            IN  /\ b.invoicedCents = SumLineTotal(its)
                /\ b.paidCents = SumPaid(its)

\* A bucket sums two items of invoices of different status (1000 unpaid and
\* 500 paid in full), while an item billed at the first instant of the next
\* month is fetched and lands in no bucket.
C4_Witness ==
    /\ overviewResp.status = "ok"
    /\ \E j \in 1..6 :
           /\ overviewResp.payments.monthlyRevenue[j].invoicedCents = 1500
           /\ overviewResp.payments.monthlyRevenue[j].paidCents = 500
           /\ \E i1, i2 \in ItemsOfMonth(invoiceItems, MonthIndex(now) - (6 - j)) :
                  i1.invoiceId = "i1" /\ i2.invoiceId = "i3"
    /\ \E i \in TrendItems(now) : MonthIndex(i.billedMonth) = MonthIndex(now) + 1

\* C5: remainingCents is invoicedCents - paidCents, unclamped; paymentRate
\* is exactly 0 when invoicedCents is 0 and paidCents / invoicedCents
\* otherwise; no quotient has a zero denominator.
C5_RemainingAndRate ==
    overviewResp.status = "ok" =>
        LET cur == overviewResp.payments.currentMonth
        IN  /\ cur.remainingCents = cur.invoicedCents - cur.paidCents
            /\ cur.paymentRate.den # 0
            /\ cur.invoicedCents = 0 => cur.paymentRate = ZeroRate
            /\ cur.invoicedCents > 0 =>
                   cur.paymentRate.num * cur.invoicedCents
                       = cur.paidCents * cur.paymentRate.den

\* Nothing invoiced and 700 paid in the current month: the remainder is
\* negative and the rate 0.
C5_Witness ==
    /\ overviewResp.status = "ok"
    /\ overviewResp.payments.currentMonth.invoicedCents = 0
    /\ overviewResp.payments.currentMonth.paidCents > 0
    /\ overviewResp.payments.currentMonth.remainingCents < 0
    /\ overviewResp.payments.currentMonth.paymentRate = ZeroRate

Subtotal(inv) == SumLineTotal({i \in invoiceItems : i.invoiceId = inv.id})

PaidOf(inv) == SumPaid({i \in invoiceItems : i.invoiceId = inv.id})

RECURSIVE SumOwed(_)
\* The sum of subtotal - paid over a set of invoices.
SumOwed(invs) ==
    IF invs = {} THEN 0
    ELSE LET inv == CHOOSE inv \in invs : TRUE
         IN  (Subtotal(inv) - PaidOf(inv)) + SumOwed(invs \ {inv})

\* C6: the overdue amount is the sum of subtotal - paid over the OVERDUE
\* invoices that are not paid in full; an overpaid one adds 0 and takes
\* nothing from the others, so the amount is never negative.
C6_OverdueClamped ==
    overviewResp.status = "ok" =>
        /\ overviewResp.payments.overdue.amountCents >= 0
        /\ overviewResp.payments.overdue.amountCents
               = SumOwed({inv \in invoices :
                             /\ inv.status = "OVERDUE"
                             /\ Subtotal(inv) > PaidOf(inv)})

\* One overdue invoice is overpaid and another still owes: the amount is
\* what the other owes.
C6_Witness ==
    /\ overviewResp.status = "ok"
    /\ \E a, b \in invoices :
           /\ a.status = "OVERDUE" /\ b.status = "OVERDUE"
           /\ PaidOf(a) > Subtotal(a)
           /\ Subtotal(b) > PaidOf(b)
           /\ overviewResp.payments.overdue.amountCents
                  = Subtotal(b) - PaidOf(b)

\* The number the characters s[from..to] spell.
RECURSIVE DigitsValue(_, _, _)
DigitsValue(s, from, to) ==
    IF to < from THEN 0
    ELSE DigitsValue(s, from, to - 1) * 10 + (s[to] - 48)

\* The instant an ISO-8601 string YYYY-MM-DDTHH:mm:ss.sssZ denotes.
ParseISO(s) ==
    DateUTC(DigitsValue(s, 1, 4), DigitsValue(s, 6, 7) - 1, DigitsValue(s, 9, 10))
        + DigitsValue(s, 12, 13) * 60 + DigitsValue(s, 15, 16)

SlotRow(id) == CHOOSE ct \in classTimes : ct.id = id

\* C7: every session of the report comes from a slot, carries that slot's
\* dayOfWeek, and starts on its candidate date, whose UTC weekday is that
\* dayOfWeek.
C7_SessionOnSlotWeekday ==
    overviewResp.status = "ok" =>
        \A k \in 1..Len(overviewResp.schedule.upcomingSessions) :
            LET ses == overviewResp.schedule.upcomingSessions[k]
            IN  /\ \E e \in sessionLog : e.id = ses.id
                /\ \A e \in sessionLog :
                       e.id = ses.id =>
                           /\ ses.dayOfWeek = SlotRow(e.slotId).dayOfWeek
                           /\ getUTCDay(ParseISO(ses.start)) = ses.dayOfWeek
                           /\ Day(ParseISO(ses.start)) = Day(e.date)

\* An overview run at 23:59 has emitted a session that starts at 23:59.
C7_Witness ==
    /\ overviewResp.status = "ok"
    /\ overviewResp.generatedAt = toISOString(now)
    /\ TimeWithinDay(now) = 1439
    /\ \E k \in 1..Len(overviewResp.schedule.upcomingSessions) :
           TimeWithinDay(ParseISO(overviewResp.schedule.upcomingSessions[k].start))
               = 1439

SourceSlotId(ses) == (CHOOSE e \in sessionLog : e.id = ses.id).slotId

\* C8: the upcoming sessions are in ascending order of start instant, and
\* sessions with equal start instants are in ascending order of slot
\* identifier.
C8_SortedTiesBySlotId ==
    \A i, j \in 1..Len(upcomingSessions) :
        i < j =>
            \/ ParseISO(upcomingSessions[i].start) < ParseISO(upcomingSessions[j].start)
            \/ /\ ParseISO(upcomingSessions[i].start) = ParseISO(upcomingSessions[j].start)
               /\ localeCompare(SourceSlotId(upcomingSessions[i]),
                                SourceSlotId(upcomingSessions[j])) <= 0

\* The session the last expansion emitted for slot ct satisfies P.
EmittedFor(ct, P(_)) ==
    \E k \in 1..Len(upcomingSessions) :
        /\ SourceSlotId(upcomingSessions[k]) = ct.id
        /\ getUTCDay(ParseISO(upcomingSessions[k].start)) = ct.dayOfWeek
        /\ P(upcomingSessions[k])

EndsBeforeStart(ses) == ParseISO(ses.end) < ParseISO(ses.start)

EndsAtOrBeforeStart(ses) == ParseISO(ses.end) <= ParseISO(ses.start)

\* C9, as stated: the expansion emits, for every degenerate slot, a session
\* on its day with endInstant < startInstant.
C9_DegenerateEndsBeforeStart ==
    overviewResp.status = "ok" =>
        \A ct \in classTimes :
            ct.endMinutes <= ct.startMinutes => EmittedFor(ct, EndsBeforeStart)

\* C9, amended: the expansion never fails and emits, for every degenerate
\* slot, a session on its day with endInstant <= startInstant; the end is
\* before the start exactly when endMinutes < startMinutes.
C9_DegenerateEmitted ==
    /\ overviewResp.status \in {"none", "ok"}
    /\ overviewResp.status = "ok" =>
           \A ct \in classTimes :
               ct.endMinutes <= ct.startMinutes =>
                   /\ EmittedFor(ct, EndsAtOrBeforeStart)
                   /\ ct.endMinutes < ct.startMinutes =>
                          EmittedFor(ct, EndsBeforeStart)

\* The expansion has run over a slot with endMinutes = startMinutes and one
\* with endMinutes < startMinutes, and emitted a session for each.
C9_Witness ==
    /\ overviewResp.status = "ok"
    /\ Len(upcomingSessions) = 2
    /\ \E a, b \in classTimes :
           /\ a.endMinutes = a.startMinutes
           /\ b.endMinutes < b.startMinutes

\* C10: two emitted sessions have the same identifier exactly when they
\* come from the same slot and the same candidate date, whichever runs of
\* overview emitted them.
C10_SessionIdsInjective ==
    \A e1, e2 \in sessionLog :
        (e1.id = e2.id) <=> (e1.slotId = e2.slotId /\ e1.date = e2.date)

\* Two runs at different instants have emitted the same slot's session on
\* one date, and one run sessions of two slots on one date.
C10_Witness ==
    /\ \E e1, e2 \in sessionLog :
           e1.at # e2.at /\ e1.slotId = e2.slotId /\ e1.date = e2.date
    /\ \E e1, e2 \in sessionLog :
           e1.at = e2.at /\ e1.slotId # e2.slotId /\ e1.date = e2.date

----------------------------------------------------------------------------
(* The students-by-level histogram.                                        *)

\* The level names a student reaches through its classes.
ReachableLevels(s) ==
    {n \in LevelNameValues :
        \E k \in 1..Len(classes) :
            s.id \in classes[k].students /\ classes[k].level = Some(n)}

HistogramCount(key) ==
    LET h == overviewResp.academics.studentsByLevel
    IN  IF key \in DOMAIN h THEN h[key] ELSE 0

\* C11: in the histogram overview returns, the count of every level name is
\* the number of students that reach that level through their classes (a
\* student counts once per level, however many of its classes lead there), and
\* the count of "Unassigned" is the number of students that reach no level: a
\* student with a level is never counted under "Unassigned".
C11_HistogramCountsStudentsPerLevel ==
    overviewResp.status = "ok" =>
        /\ \A n \in LevelNameValues \ {"Unassigned"} :
               HistogramCount(n) =
                   Cardinality({s \in students : n \in ReachableLevels(s)})
        /\ HistogramCount("Unassigned") =
               Cardinality({s \in students : ReachableLevels(s) = {}})

----------------------------------------------------------------------------
(* The top-classes list.                                                   *)

\* Where the class of that id stands in the snapshot.
SnapshotIndex(id) == CHOOSE k \in 1..Len(classes) : classes[k].id = id

EnrolledCount(k) == Cardinality(classes[k].students)

\* C12: the top-classes list holds min(5, number of classes) entries, each a
\* different class of the snapshot with its number of students; it is in
\* descending order of studentCount, classes of equal studentCount standing in
\* the order of the snapshot; and no class left out has more students than a
\* class of the list.
C12_TopClassesRanked ==
    overviewResp.status = "ok" =>
        LET top == overviewResp.academics.topClasses
            InTop(k) == \E i \in 1..Len(top) : top[i].id = classes[k].id
        IN  /\ Len(top) = (IF Len(classes) < 5 THEN Len(classes) ELSE 5)
            /\ \A i \in 1..Len(top) :
                   /\ \E k \in 1..Len(classes) : classes[k].id = top[i].id
                   /\ top[i].studentCount = EnrolledCount(SnapshotIndex(top[i].id))
            /\ \A i, j \in 1..Len(top) :
                   i < j =>
                       \/ top[i].studentCount > top[j].studentCount
                       \/ /\ top[i].studentCount = top[j].studentCount
                          /\ SnapshotIndex(top[i].id) < SnapshotIndex(top[j].id)
            /\ \A k \in 1..Len(classes) :
                   ~InTop(k) =>
                       \A i \in 1..Len(top) :
                           EnrolledCount(k) <= top[i].studentCount

\* Six classes or more, the snapshot not in the order of the ranking, two
\* classes of the list with the same studentCount, and a class left out that
\* stands in the snapshot before a class of the list.
C12_Witness ==
    /\ overviewResp.status = "ok"
    /\ Len(classes) >= 6
    /\ LET top == overviewResp.academics.topClasses
       IN  /\ \E i, j \in 1..Len(top) :
                  i < j /\ top[i].studentCount = top[j].studentCount
           /\ \E i \in 1..Len(top) :
                  SnapshotIndex(top[i].id) > 5
           /\ \E i, j \in 1..Len(top) :
                  i < j /\ SnapshotIndex(top[i].id) > SnapshotIndex(top[j].id)

----------------------------------------------------------------------------
(* Failures of the reads.                                                  *)

\* C13: whenever a read of the store failed during a run of overview, the run
\* failed: it returned no report, and so none in which the result of the
\* failed read is replaced by an empty or default value.
C13_FailedReadsFailOverview ==
    failedReads # {} => overviewResp.status = "rejected"

----------------------------------------------------------------------------
(* The password of a new account.                                          *)

\* C14: after every call of create that stored an account, the password that
\* was stored (hashed) is known to the caller: it is the password the caller
\* supplied, or it is the temporary password returned as __tempPassword.
C14_StoredPasswordReachesCaller ==
    createResp.status = "ok" =>
        LET supplied == UserInput(CHOOSE i \in createInput : TRUE).password
            stored   == createResp.user.password
        IN  \/ \E p \in supplied : stored = Hash(p)
            \/ \E t \in createResp.tempPassword : stored = Hash(t)

----------------------------------------------------------------------------
(* The slots of the store end after they start.                            *)

EndsAfterStart(ct) == ct.endMinutes > ct.startMinutes

ValidationMessage == "endMinutes must be greater than startMinutes"

\* C15: from a store whose slots all end after they start, after any sequence
\* of addTime and updateTime calls made one at a time every slot of the store
\* ends after it starts; and a call that is rejected (a partial update
\* included) leaves the slots of the store as they were.
C15_SequentialCallsKeepSlotsValid ==
    /\ [](\A ct \in classTimes : EndsAfterStart(ct))
    /\ [][timeResp'.status = "NotFoundException" => classTimes' = classTimes]_vars

\* A partial update that would have put the start of a slot at or after its
\* end has just been rejected, on a store that holds a slot addTime created
\* and a slot an update moved.
C15_Witness ==
    /\ timeResp.status = "NotFoundException"
    /\ timeResp.message = ValidationMessage
    /\ \E ct \in classTimes : ct.id = TimeIdPool[2]
    /\ \E ct \in classTimes : ct.dayOfWeek = 3 /\ ct.startMinutes = 660
    /\ \E ct \in classTimes : ct.startMinutes = 540 /\ ct.endMinutes = 600

\* C16: under every interleaving of the steps of two updateTime calls on the
\* same slot, each reading the row, validating its own merge and writing its
\* own fields, the slot ends after it starts.
C16_InterleavedUpdatesKeepSlotValid ==
    \A ct \in classTimes : EndsAfterStart(ct)

----------------------------------------------------------------------------
(* The current month and the last bucket of the trend.                     *)

\* C17: in every report, the invoicedCents and the paidCents of
\* payments.currentMonth equal those of the last bucket of
\* payments.monthlyRevenue, the bucket of the month of now.
C17_CurrentMonthIsLastBucket ==
    overviewResp.status = "ok" =>
        LET cur  == overviewResp.payments.currentMonth
            last == overviewResp.payments.monthlyRevenue[6]
        IN  /\ cur.invoicedCents = last.invoicedCents
            /\ cur.paidCents = last.paidCents

====
